---- MODULE Spec2Model ----
(***************************************************************************)
(* EigenCalculator of backend/app.py: the four numerical operations        *)
(* calculate_eigenvalues_2d, calculate_eigenvalues_3d, transform_vector    *)
(* and check_eigenvector_alignment.                                        *)
(*                                                                         *)
(* Numbers.  Matrix and vector entries are integers (exactly representable *)
(* floats).  Floating-point arithmetic is modelled as exact arithmetic:    *)
(*   - a vector divided by its Euclidean norm is kept as                   *)
(*       [num |-> <<x1,..,xn>>, den2 |-> S]   meaning  x_i / sqrt(S);      *)
(*   - a quotient of integers is kept as a reduced fraction                *)
(*       [num |-> p, den |-> q];                                           *)
(*   - a tolerance is a fraction [n |-> p, d |-> q], q > 0.                *)
(* Comparisons of a norm with a tolerance are decided exactly on the       *)
(* squares.  The rounding of the last binary digit of a result is not      *)
(* computed.  It decides one comparison: cross_product_magnitude <          *)
(* tolerance when the exact magnitude is the tolerance itself and the       *)
(* vector was divided by a norm that is not a power of two.  The computed   *)
(* magnitude is then just below the tolerance or not, and the model takes   *)
(* either: rounded records which ("down": the computed magnitude is below   *)
(* the exact one).  Dividing by a power of two rounds nothing.              *)
(*                                                                         *)
(* Decompositions.  The matrix of a decomposition request is               *)
(* matrix * 2^-exp, exp in {0, TickExp}: integer entries, or entries of    *)
(* the order of the threshold 1e-10 (2^-34 is about 5.8e-11).  Eigenvalues *)
(* and the trace of its result count units of 2^-exp, the determinant      *)
(* units of 2^-(n*exp); eigenvector components are num / sqrt(den2).       *)
(* Eig is np.linalg.eig (LAPACK dgeev) on the matrices whose answer it     *)
(* computes without rounding other than that of 1/sqrt(2): diagonal        *)
(* matrices, rotation-scalings and symmetric 2x2 matrices with equal       *)
(* diagonal, their off-diagonal entries perfect squares.                   *)
(***************************************************************************)
EXTENDS Integers, Sequences, FiniteSets, TLC

VARIABLES op, matrix, exp, vector, tolerance, rounded, pc, outcome, internal, solverCalled

vars == <<op, matrix, exp, vector, tolerance, rounded, pc, outcome, internal, solverCalled>>

(***************************************************************************)
(* Bounds of the model.                                                    *)
(***************************************************************************)
\* matrix and vector entries range over -MaxEntry..MaxEntry
MaxEntry == 1
\* identity matrices and vectors up to this dimension
MaxDim == 4
\* off-diagonal entries of the decomposed matrices: the squares up to MaxRoot^2
MaxRoot == 2

\* denominator of the default tolerance 1e-6 = 1/TolDen
TolDen == 1000000

\* the threshold 1e-10 = 1 / (FiveToTen * 2^10) = 1 / TenToFive^2
FiveToTen == 9765625

TenToFive == 100000

\* the small unit of a decomposition request is 2^-TickExp
TickExp == 34

(***************************************************************************)
(* Python outcomes: a call returns a value or raises an exception.         *)
(***************************************************************************)
Return(v) == [kind |-> "return", value |-> v]

Raise(exc, msg) == [kind |-> "raise", exc |-> exc, msg |-> msg]

Pending == [kind |-> "pending"]

\* Python's None, and a float result p/q, as values of one shape
None == [present |-> FALSE, num |-> 0, den |-> 1]

Abs(x) == IF x < 0 THEN -x ELSE x

RECURSIVE GCD(_, _)
GCD(a, b) == IF b = 0 THEN Abs(a) ELSE GCD(b, a % b)

\* float(p/q), q > 0, as a reduced fraction
Float(p, q) ==
    LET g == GCD(Abs(p), q)
    IN  [present |-> TRUE, num |-> p \div g, den |-> q \div g]

CeilDiv(x, d) == (x + d - 1) \div d

\* sqrt(a) < n/d for integers a >= 0, n and d > 0, decided exactly:
\* a*d*d < n*n, computed as a < ceil(ceil(n*n/d)/d) to stay in range
SqrtLess(a, n, d) == n > 0 /\ a < CeilDiv(CeilDiv(n * n, d), d)

\* sqrt(a) = n/d exactly: a*d*d = n*n
SqrtEq(a, n, d) ==
    /\ (n * n) % d = 0
    /\ ((n * n) \div d) % d = 0
    /\ a = ((n * n) \div d) \div d

RECURSIVE PowerOfFour(_)
\* k = 4^j: sqrt(k) is a power of two, and dividing by it rounds nothing
PowerOfFour(k) == k = 1 \/ (k > 1 /\ k % 4 = 0 /\ PowerOfFour(k \div 4))

(***************************************************************************)
(* numpy on nested lists.                                                  *)
(***************************************************************************)
\* np.array(matrix, dtype=float) succeeds on rows of equal length
IsRect(m) == \A i \in 1..Len(m) : Len(m[i]) = Len(m[1])

\* matrix.shape of a converted matrix
Shape(m) == <<Len(m), Len(m[1])>>

RECURSIVE SumTo(_, _, _)
SumTo(a, b, k) == IF k = 0 THEN 0 ELSE SumTo(a, b, k - 1) + a[k] * b[k]

\* np.dot of two 1-d arrays of the same length
Dot(a, b) == SumTo(a, b, Len(a))

\* MatVec reading the matrix by columns
MatVecColumns(m, v) == [i \in 1..Len(m) |-> SumTo([j \in 1..Len(m) |-> m[j][i]], v, Len(v))]

\* np.dot(matrix, v) for a 2-d matrix whose column count is len(v)
MatVec(m, v) == [i \in 1..Len(m) |-> Dot(m[i], v)]

\* np.linalg.norm(v) squared
NormSq(v) == Dot(v, v)

(***************************************************************************)
(* transform_vector                                                        *)
(***************************************************************************)
\* transform_try testing the vector's length before the matrix's shape
transform_try_vector_first(m, v) ==
    IF ~IsRect(m)
    THEN Raise("ValueError", "inhomogeneous shape")
    ELSE IF Len(v) # Shape(m)[2]
    THEN Raise("ValueError", "Vector dimension must match matrix size")
    ELSE IF Shape(m)[1] # Shape(m)[2]
    THEN Raise("ValueError", "Matrix must be square")
    ELSE Return(MatVec(m, v))

\* the try block of transform_vector
transform_try(m, v) ==
    IF ~IsRect(m)
    THEN Raise("ValueError", "inhomogeneous shape")
    ELSE IF Shape(m)[1] # Shape(m)[2]
    THEN Raise("ValueError", "Matrix must be square")
    ELSE IF Len(v) # Shape(m)[2]
    THEN Raise("ValueError", "Vector dimension must match matrix size")
    ELSE Return(MatVec(m, v))

\* except Exception: log and re-raise
transform_vector(m, v) ==
    LET r == transform_try(m, v)
    IN  IF r.kind = "raise" THEN r ELSE r

(***************************************************************************)
(* check_eigenvector_alignment                                             *)
(***************************************************************************)
\* Normalize leaving the vector undivided
NormalizeUndivided(v) == [num |-> v, den2 |-> 1]

\* vector / norm: the components v[i] / sqrt(NormSq(v)); 0/0 gives nan
Normalize(v) == [num |-> v, den2 |-> NormSq(v)]

\* np.dot(matrix, u) for a scaled vector u
ScaledMatVec(m, u) == [num |-> MatVec(m, u.num), den2 |-> u.den2]

\* a vector of dimension 2 padded with z = 0, as np.cross reads it
Pad3(a) == IF Len(a) = 2 THEN <<a[1], a[2], 0>> ELSE a

Cross3(a, b) ==
    << a[2] * b[3] - a[3] * b[2],
       a[3] * b[1] - a[1] * b[3],
       a[1] * b[2] - a[2] * b[1] >>

\* np.cross of two integer vectors of dimension 2 or 3: the scalar z
\* component (here a sequence of one entry) when both have dimension 2
CrossNum(a, b) ==
    LET c == Cross3(Pad3(a), Pad3(b))
    IN  IF Len(a) = 2 /\ Len(b) = 2 THEN <<c[3]>> ELSE c

\* np.cross(u, w) of two vectors scaled by the same 1/sqrt(den2):
\* the components num[i] / den
Cross(u, w) == [num |-> CrossNum(u.num, w.num), den |-> u.den2]

\* VectorBelow never answering: the guard on the vector's norm left out
VectorBelowNever(v, tol) == FALSE

\* norm < tolerance for norm = np.linalg.norm(vector)
VectorBelow(v, tol) == SqrtLess(NormSq(v), tol.n, tol.d)

\* how the computed components of vector / norm, and with them the computed
\* magnitude of the cross product, lie to the exact ones
Roundings(v) == IF PowerOfFour(NormSq(v)) THEN {"exact"} ELSE {"down", "up"}

\* NormBelow on the cross product of the undivided vectors
NormBelowUnscaled(c, tol, fl) == SqrtLess(NormSq(c.num), tol.n, tol.d)

\* np.linalg.norm(c) < tol for c = num/den; a nan compares false.  A
\* magnitude exactly at a positive tolerance is computed below it when it
\* was rounded down
NormBelow(c, tol, fl) ==
    /\ c.den # 0
    /\ \/ SqrtLess(NormSq(c.num), tol.n * c.den, tol.d)
       \/ /\ fl = "down"
          /\ tol.n > 0
          /\ SqrtEq(NormSq(c.num), tol.n * c.den, tol.d)

\* a dot product over the shorter of two operands, as sum(x*y for x, y in zip(a, b))
ZipDot(a, b) == SumTo(a, b, IF Len(a) < Len(b) THEN Len(a) ELSE Len(b))

\* alignment_try with ZipDot in place of np.dot: no shape is ever refused
alignment_try_zip_dot(m, v, tol, fl) ==
    IF ~IsRect(m)
    THEN Raise("ValueError", "inhomogeneous shape")
    ELSE IF VectorBelow(v, tol)
    THEN Return(None)
    ELSE LET normalized_vector == Normalize(v)
             transformed == [num |-> [i \in 1..Len(m) |-> ZipDot(m[i], v)], den2 |-> normalized_vector.den2]
         IN  IF Len(v) \notin {2, 3} \/ Len(transformed.num) \notin {2, 3}
             THEN Raise("ValueError", "incompatible dimensions for cross product")
             ELSE IF NormBelow(Cross(normalized_vector, transformed), tol, fl)
             THEN Return(Float(ZipDot(transformed.num, normalized_vector.num),
                               normalized_vector.den2))
             ELSE Return(None)

\* the try block of check_eigenvector_alignment
alignment_try(m, v, tol, fl) ==
    IF ~IsRect(m)
    THEN Raise("ValueError", "inhomogeneous shape")
    ELSE IF VectorBelow(v, tol)
    THEN Return(None)
    ELSE LET normalized_vector == Normalize(v)
         IN  IF Shape(m)[2] # Len(v)
             THEN Raise("ValueError", "shapes not aligned")
             ELSE LET transformed == ScaledMatVec(m, normalized_vector)
                  IN  IF Len(v) \notin {2, 3} \/ Len(transformed.num) \notin {2, 3}
                      THEN Raise("ValueError", "incompatible dimensions for cross product")
                      ELSE IF NormBelow(Cross(normalized_vector, transformed), tol, fl)
                      THEN IF Len(transformed.num) # Len(v)
                           THEN Raise("ValueError", "shapes not aligned")
                           ELSE Return(Float(Dot(transformed.num, normalized_vector.num),
                                             normalized_vector.den2))
                      ELSE Return(None)

\* check_eigenvector_alignment re-raising, as the other operations do
check_eigenvector_alignment_reraise(m, v, tol, fl) == alignment_try(m, v, tol, fl)

\* except Exception: log and return None
check_eigenvector_alignment(m, v, tol, fl) ==
    LET r == alignment_try(m, v, tol, fl)
    IN  IF r.kind = "raise" THEN Return(None) ELSE r

(***************************************************************************)
(* calculate_eigenvalues_2d, calculate_eigenvalues_3d                      *)
(***************************************************************************)
\* np.linalg.det of a 2x2 or 3x3 matrix, in the unit of the entries to the
\* power of its dimension
Det(m) ==
    IF Len(m) = 2
    THEN m[1][1] * m[2][2] - m[1][2] * m[2][1]
    ELSE   m[1][1] * (m[2][2] * m[3][3] - m[2][3] * m[3][2])
         - m[1][2] * (m[2][1] * m[3][3] - m[2][3] * m[3][1])
         + m[1][3] * (m[2][1] * m[3][2] - m[2][2] * m[3][1])

RECURSIVE TraceTo(_, _)
TraceTo(m, k) == IF k = 0 THEN 0 ELSE TraceTo(m, k - 1) + m[k][k]

\* np.trace
Trace(m) == TraceTo(m, Len(m))

\* what np.linalg.eig raises: LinAlgError
NoEig == [ok |-> FALSE, pairs |-> <<>>]

\* one column of the solver's eigenvectors with its eigenvalue: the value
\* re + i*im, the vector (x + i*y) / sqrt(d)
Pair(re, im, x, y, d) == [val |-> [re |-> re, im |-> im], vec |-> [re |-> x, im |-> y, den2 |-> d]]

Sign(x) == IF x < 0 THEN -1 ELSE 1

\* sqrt(k) is an integer: sqrt(k) * sqrt(k) is k without rounding
ExactRoot(k) == \E r \in 1..k : r * r = k

IsDiagonal(m) == \A i \in 1..Len(m) : \A j \in 1..Len(m) : i # j => m[i][j] = 0

\* [[a, -b], [b, a]], b # 0
IsRotScale2(m) ==
    /\ Len(m) = 2
    /\ m[1][1] = m[2][2]
    /\ m[1][2] = -m[2][1]
    /\ ExactRoot(Abs(m[2][1]))

\* [[a, b], [b, a]], b # 0
IsSym2(m) ==
    /\ Len(m) = 2
    /\ m[1][1] = m[2][2]
    /\ m[1][2] = m[2][1]
    /\ ExactRoot(Abs(m[2][1]))

\* [[a, -b, 0], [b, a, 0], [0, 0, c]], b # 0
IsRotScale3(m) ==
    /\ Len(m) = 3
    /\ m[1][1] = m[2][2]
    /\ m[1][2] = -m[2][1]
    /\ ExactRoot(Abs(m[2][1]))
    /\ m[1][3] = 0 /\ m[2][3] = 0 /\ m[3][1] = 0 /\ m[3][2] = 0

\* the matrices np.linalg.eig is modelled on
Solved(m) == IsDiagonal(m) \/ IsRotScale2(m) \/ IsSym2(m) \/ IsRotScale3(m)

\* the eigenpairs of the leading block [[a, -b], [b, a]]: the eigenvalue
\* with the positive imaginary part first, its eigenvector with a real first
\* component, then their conjugates
RotPairs(m, n) ==
    LET a == m[1][1]
        b == m[2][1]
        x == [k \in 1..n |-> IF k = 1 THEN 1 ELSE 0]
        y == [k \in 1..n |-> IF k = 2 THEN -Sign(b) ELSE 0]
    IN  << Pair(a, Abs(b), x, y, 2), Pair(a, -Abs(b), x, [k \in 1..n |-> -y[k]], 2) >>

\* np.linalg.eig(m): eigenvalues in the unit of the entries, unit
\* eigenvectors; LinAlgError on a matrix that is not square
Eig(m) ==
    IF Len(m) # Len(m[1])
    THEN NoEig
    ELSE CASE IsDiagonal(m) ->
                [ok |-> TRUE,
                 pairs |-> [k \in 1..Len(m) |->
                    Pair(m[k][k], 0, [j \in 1..Len(m) |-> IF j = k THEN 1 ELSE 0], [j \in 1..Len(m) |-> 0], 1)]]
           [] IsRotScale2(m) ->
                [ok |-> TRUE, pairs |-> RotPairs(m, 2)]
           [] IsSym2(m) ->
                [ok |-> TRUE,
                 pairs |-> << Pair(m[1][1] + Abs(m[2][1]), 0, <<1, Sign(m[2][1])>>, <<0, 0>>, 2),
                              Pair(m[1][1] - Abs(m[2][1]), 0, <<-Sign(m[2][1]), 1>>, <<0, 0>>, 2) >>]
           [] IsRotScale3(m) ->
                [ok |-> TRUE,
                 pairs |-> RotPairs(m, 3) \o << Pair(m[3][3], 0, <<0, 0, 1>>, <<0, 0, 0>>, 1) >>]

\* IsReal reading the imaginary part with its sign
IsRealSigned(val, e) == val.im * FiveToTen < (IF e >= 10 THEN 2 ^ (e - 10) ELSE 1)

\* abs(val.imag) < 1e-10 for val.imag = im * 2^-e, decided exactly:
\* |im| * 5^10 < 2^(e - 10)
IsReal(val, e) == Abs(val.im) * FiveToTen < (IF e >= 10 THEN 2 ^ (e - 10) ELSE 1)

\* the real parts of the first n components of a solver eigenvector
RealParts(vec, n) == [k \in 1..n |-> vec.re[k]]

ImagParts(vec, n) == [k \in 1..n |-> vec.im[k]]

\* NormAbove never answering: the vector left as the solver gave it
NormAboveNever(x, d) == FALSE

\* norm > 1e-10 for the norm sqrt(NormSq(x) / d) of x / sqrt(d), decided
\* exactly: NormSq(x) > d / 10^20
NormAbove(x, d) == NormSq(x) > (((d \div TenToFive) \div TenToFive) \div TenToFive) \div TenToFive

\* the real branch's eigenvector x / sqrt(d): divided by its norm
\* sqrt(NormSq(x) / d) when norm > 1e-10
RealVec(x, d) ==
    IF NormAbove(x, d)
    THEN [form |-> "flat", num |-> x, den2 |-> NormSq(x)]
    ELSE [form |-> "flat", num |-> x, den2 |-> d]

\* result['eigenvalues'][i]
EigenvalueOf(p, e) ==
    IF IsReal(p.val, e)
    THEN [form |-> "scalar", real |-> p.val.re, imag |-> 0]
    ELSE [form |-> "complex", real |-> p.val.re, imag |-> p.val.im]

\* result['eigenvectors'][i]
EigenvectorOf(p, n, e) ==
    IF IsReal(p.val, e)
    THEN RealVec(RealParts(p.vec, n), p.vec.den2)
    ELSE [form |-> "complex", real |-> RealParts(p.vec, n), imag |-> ImagParts(p.vec, n),
          den2 |-> p.vec.den2]

\* eigenvalues_try testing the row count alone
eigenvalues_try_rows_only(n, m, e) ==
    IF ~IsRect(m)
    THEN [out |-> Raise("ValueError", "inhomogeneous shape"), eigCalled |-> FALSE]
    ELSE IF Len(m) # n
    THEN [out |-> Raise("ValueError", IF n = 2 THEN "Matrix must be 2x2" ELSE "Matrix must be 3x3"),
          eigCalled |-> FALSE]
    ELSE IF ~Eig(m).ok
    THEN [out |-> Raise("LinAlgError", "eig"), eigCalled |-> TRUE]
    ELSE [out |-> Return([eigenvalues |-> [i \in 1..Len(Eig(m).pairs) |-> EigenvalueOf(Eig(m).pairs[i], e)],
                          eigenvectors |-> [i \in 1..Len(Eig(m).pairs) |-> EigenvectorOf(Eig(m).pairs[i], n, e)],
                          is_real |-> [i \in 1..Len(Eig(m).pairs) |-> IsReal(Eig(m).pairs[i].val, e)],
                          determinant |-> Det(m),
                          trace |-> Trace(m)]),
          eigCalled |-> TRUE]

\* the try block of calculate_eigenvalues_2d (n = 2) and _3d (n = 3) on the
\* matrix m * 2^-e; eigCalled records whether np.linalg.eig was reached
eigenvalues_try(n, m, e) ==
    IF ~IsRect(m)
    THEN [out |-> Raise("ValueError", "inhomogeneous shape"), eigCalled |-> FALSE]
    ELSE IF Shape(m) # <<n, n>>
    THEN [out |-> Raise("ValueError", IF n = 2 THEN "Matrix must be 2x2" ELSE "Matrix must be 3x3"),
          eigCalled |-> FALSE]
    ELSE IF ~Eig(m).ok
    THEN [out |-> Raise("LinAlgError", "eig"), eigCalled |-> TRUE]
    ELSE [out |-> Return([eigenvalues |-> [i \in 1..Len(Eig(m).pairs) |-> EigenvalueOf(Eig(m).pairs[i], e)],
                          eigenvectors |-> [i \in 1..Len(Eig(m).pairs) |-> EigenvectorOf(Eig(m).pairs[i], n, e)],
                          is_real |-> [i \in 1..Len(Eig(m).pairs) |-> IsReal(Eig(m).pairs[i].val, e)],
                          determinant |-> Det(m),
                          trace |-> Trace(m)]),
          eigCalled |-> TRUE]

\* except Exception: log and re-raise
calculate_eigenvalues_2d(m, e) ==
    LET r == eigenvalues_try(2, m, e).out
    IN  IF r.kind = "raise" THEN r ELSE r

\* except Exception: log and re-raise
calculate_eigenvalues_3d(m, e) ==
    LET r == eigenvalues_try(3, m, e).out
    IN  IF r.kind = "raise" THEN r ELSE r

(***************************************************************************)
(* Inputs.                                                                 *)
(***************************************************************************)
Entry == -MaxEntry..MaxEntry

\* all vectors of length n over a set of entries
VecOver(n, S) == [1..n -> S]

Identity(n) == [i \in 1..n |-> [j \in 1..n |-> IF i = j THEN 1 ELSE 0]]

\* an r x c matrix with a on the diagonal and b elsewhere
Fill(r, c, a, b) == [i \in 1..r |-> [j \in 1..c |-> IF i = j THEN a ELSE b]]

Mats2 == { <<r1, r2>> : r1 \in VecOver(2, Entry), r2 \in VecOver(2, Entry) }

\* rotation-scalings about the z axis: identity, scalings, the preset
\* rotation about Z, the zero matrix
Mats3 == { << <<a, -b, 0>>, <<b, a, 0>>, <<0, 0, c>> >> : a \in Entry, b \in Entry, c \in Entry }

\* matrices of every shape up to MaxDim, and ragged ones
ShapeMats ==
    { Fill(r, c, 1, b) : r \in 1..MaxDim, c \in 1..MaxDim, b \in {0, 1} }
    \cup { << <<1, 0>>, <<0>> >>, << <<1>>, <<0, 1>> >>, << <<1, 0, 0>>, <<0, 1>>, <<0, 0, 1>> >> }

\* 0/1 vectors of every dimension up to MaxDim
ShapeVecs == UNION { VecOver(n, {0, 1}) : n \in 1..MaxDim }

TransformInputs ==
    { <<m, v>> : m \in Mats2, v \in VecOver(2, Entry) }
    \cup { <<m, v>> : m \in Mats3, v \in VecOver(3, Entry) }
    \cup { <<m, v>> : m \in ShapeMats, v \in ShapeVecs }

DefaultTol == [n |-> 1, d |-> TolDen]

\* the default 1e-6 and the tolerances 0, 1 and 2
TolSet == { DefaultTol, [n |-> 0, d |-> 1], [n |-> 1, d |-> 1], [n |-> 2, d |-> 1] }

AlignInputs == { <<in[1], in[2], t>> : in \in TransformInputs, t \in TolSet }

\* the off-diagonal entries b of the decomposed matrices
Off == { s * r * r : s \in {-1, 1}, r \in 1..MaxRoot }

\* the presets of get_matrix_presets that Eig is modelled on
Presets ==
    { << <<1, 0>>, <<0, 1>> >>,
      << <<2, 0>>, <<0, 3>> >>,
      << <<1, 0>>, <<0, -1>> >>,
      << <<0, -1>>, <<1, 0>> >>,
      << <<3, 1>>, <<1, 3>> >>,
      << <<1, 0, 0>>, <<0, 1, 0>>, <<0, 0, 1>> >>,
      << <<2, 0, 0>>, <<0, 3, 0>>, <<0, 0, 4>> >>,
      << <<0, -1, 0>>, <<1, 0, 0>>, <<0, 0, 1>> >> }

\* diagonal matrices, rotation-scalings and symmetric matrices of equal diagonal
DecompMats2 ==
    { << <<a, 0>>, <<0, d>> >> : a \in Entry, d \in Entry }
    \cup { << <<a, -b>>, <<b, a>> >> : a \in Entry, b \in Off }
    \cup { << <<a, b>>, <<b, a>> >> : a \in Entry, b \in Off }

\* diagonal matrices and rotation-scalings about the z axis
DecompMats3 ==
    { << <<a, 0, 0>>, <<0, d, 0>>, <<0, 0, c>> >> : a \in Entry, d \in Entry, c \in Entry }
    \cup { << <<a, -b, 0>>, <<b, a, 0>>, <<0, 0, c>> >> : a \in Entry, b \in Off, c \in Entry }

\* requests of a decomposition: a matrix of any shape, the square ones those
\* Eig is modelled on, in whole entries or in entries of 2^-TickExp
DecompInputs ==
    { <<m, e>> : m \in { x \in DecompMats2 \cup DecompMats3 \cup Presets \cup ShapeMats :
                            (IsRect(x) /\ Len(x) = Len(x[1])) => Solved(x) },
                 e \in {0, TickExp} }

(***************************************************************************)
(* The state machine: one request, drawn at Init, served by its operation. *)
(***************************************************************************)
InitTransform ==
    /\ op = "transform"
    /\ \E in \in TransformInputs : matrix = in[1] /\ vector = in[2]
    /\ exp = 0
    /\ tolerance = DefaultTol

InitAlign ==
    /\ op = "check"
    /\ \E in \in AlignInputs : matrix = in[1] /\ vector = in[2] /\ tolerance = in[3]
    /\ exp = 0

InitDecomp ==
    /\ op \in {"2d", "3d"}
    /\ \E in \in DecompInputs : matrix = in[1] /\ exp = in[2]
    /\ vector = <<>>
    /\ tolerance = DefaultTol

Init ==
    /\ InitTransform \/ InitAlign \/ InitDecomp
    /\ rounded = "none"
    /\ pc = "ready"
    /\ outcome = Pending
    /\ internal = Pending
    /\ solverCalled = FALSE

Calc2D ==
    /\ pc = "ready"
    /\ op = "2d"
    /\ outcome' = calculate_eigenvalues_2d(matrix, exp)
    /\ internal' = eigenvalues_try(2, matrix, exp).out
    /\ solverCalled' = eigenvalues_try(2, matrix, exp).eigCalled
    /\ pc' = "done"
    /\ UNCHANGED <<op, matrix, exp, vector, tolerance, rounded>>

Calc3D ==
    /\ pc = "ready"
    /\ op = "3d"
    /\ outcome' = calculate_eigenvalues_3d(matrix, exp)
    /\ internal' = eigenvalues_try(3, matrix, exp).out
    /\ solverCalled' = eigenvalues_try(3, matrix, exp).eigCalled
    /\ pc' = "done"
    /\ UNCHANGED <<op, matrix, exp, vector, tolerance, rounded>>

Transform ==
    /\ pc = "ready"
    /\ op = "transform"
    /\ outcome' = transform_vector(matrix, vector)
    /\ internal' = transform_try(matrix, vector)
    /\ solverCalled' = FALSE
    /\ pc' = "done"
    /\ UNCHANGED <<op, matrix, exp, vector, tolerance, rounded>>

CheckAlignment ==
    /\ pc = "ready"
    /\ op = "check"
    /\ \E fl \in Roundings(vector) :
          /\ rounded' = fl
          /\ outcome' = check_eigenvector_alignment(matrix, vector, tolerance, fl)
          /\ internal' = alignment_try(matrix, vector, tolerance, fl)
    /\ solverCalled' = FALSE
    /\ pc' = "done"
    /\ UNCHANGED <<op, matrix, exp, vector, tolerance>>

Next == Calc2D \/ Calc3D \/ Transform \/ CheckAlignment

Spec == Init /\ [][Next]_vars

(***************************************************************************)
(* Properties.                                                             *)
(***************************************************************************)
Done(o) == pc = "done" /\ op = o

Rows == Len(matrix)

Cols == Len(matrix[1])

Square == IsRect(matrix) /\ Rows = Cols

RECURSIVE Sigma(_, _, _)
\* row[j]*v[j] + ... + row[n]*v[n], summed from the right
Sigma(row, v, j) == IF j > Len(row) THEN 0 ELSE row[j] * v[j] + Sigma(row, v, j + 1)

ZeroVector == \A k \in 1..Len(vector) : vector[k] = 0

\* C1: transform of a square matrix and a vector of its dimension returns a
\* vector of that dimension whose i-th entry is the dot product of row i
\* with the vector, nothing normalised; the identity returns the vector.
C1_TransformIsRowDots ==
    (Done("transform") /\ Square /\ Len(vector) = Cols) =>
        /\ outcome.kind = "return"
        /\ Len(outcome.value) = Rows
        /\ \A i \in 1..Rows : outcome.value[i] = Sigma(matrix[i], vector, 1)
        /\ (matrix = Identity(Rows) => outcome.value = vector)

C1_Witness ==
    /\ Done("transform")
    /\ matrix = << <<1, 1>>, <<0, 1>> >>
    /\ vector = <<1, 1>>
    /\ outcome = Return(<<2, 1>>)

\* C2: transform raises, returning no vector, when the matrix is not square
\* or the vector's length is not the column count; the message names the
\* constraint, the squareness when both fail.
C2_TransformShapeErrors ==
    (Done("transform") /\ IsRect(matrix)) =>
        /\ (Rows # Cols =>
               /\ outcome.kind = "raise"
               /\ outcome.exc = "ValueError"
               /\ outcome.msg = "Matrix must be square")
        /\ (Rows = Cols /\ Len(vector) # Cols =>
               /\ outcome.kind = "raise"
               /\ outcome.exc = "ValueError"
               /\ outcome.msg = "Vector dimension must match matrix size")

C2_Witness ==
    /\ Done("transform")
    /\ IsRect(matrix)
    /\ Rows # Cols
    /\ Len(vector) # Cols
    /\ outcome.kind = "raise"
    /\ outcome.msg = "Matrix must be square"

OpDim == IF op = "2d" THEN 2 ELSE 3

ExactlyNxN == IsRect(matrix) /\ Rows = OpDim /\ Cols = OpDim

\* C3: a decomposition of a matrix that is not exactly n x n raises a
\* ValueError before np.linalg.eig is called, and a result that is returned
\* holds all n eigenpairs with determinant and trace.
C3_DecomposeShapeError ==
    (pc = "done" /\ op \in {"2d", "3d"}) =>
        /\ (~ExactlyNxN =>
               /\ outcome.kind = "raise"
               /\ outcome.exc = "ValueError"
               /\ ~solverCalled)
        /\ (outcome.kind = "return" =>
               /\ ExactlyNxN
               /\ DOMAIN outcome.value = {"eigenvalues", "eigenvectors", "is_real", "determinant", "trace"}
               /\ Len(outcome.value.eigenvalues) = OpDim
               /\ Len(outcome.value.eigenvectors) = OpDim
               /\ Len(outcome.value.is_real) = OpDim)

C3_Witness ==
    /\ Done("2d")
    /\ matrix = Identity(3)
    /\ Eig(matrix).ok
    /\ outcome.kind = "raise"
    /\ ~solverCalled

Decomposed == pc = "done" /\ op \in {"2d", "3d"} /\ outcome.kind = "return"

\* what the solver answers on the request's matrix
Solver == Eig(matrix).pairs

\* C4: the i-th eigenpair is tagged real exactly when the imaginary part of
\* the solver's i-th eigenvalue is strictly within 1e-10 of zero (in whole
\* units: zero; in units of 2^-34: -1, 0 or 1), whatever the eigenvector's
\* imaginary parts; a real pair carries a scalar and a flat vector, a
\* complex pair the {real, imag} forms of the solver's values.
C4_RealityClassification ==
    Decomposed =>
        \A i \in 1..OpDim :
            LET val == Solver[i].val
                small == IF exp = 0 THEN val.im = 0 ELSE val.im \in {-1, 0, 1}
                ev == outcome.value.eigenvalues[i]
                vec == outcome.value.eigenvectors[i]
            IN  /\ outcome.value.is_real[i] = small
                /\ small =>
                      /\ ev.form = "scalar"
                      /\ ev.real = val.re
                      /\ vec.form = "flat"
                      /\ Len(vec.num) = OpDim
                /\ ~small =>
                      /\ ev.form = "complex"
                      /\ ev.real = val.re
                      /\ ev.imag = val.im
                      /\ vec.form = "complex"
                      /\ vec.real = Solver[i].vec.re
                      /\ vec.imag = Solver[i].vec.im
                      /\ vec.den2 = Solver[i].vec.den2

C4_Witness ==
    /\ Decomposed
    /\ exp = TickExp
    /\ \E i \in 1..OpDim :
          /\ Solver[i].val.im = -1
          /\ \E k \in 1..OpDim : Solver[i].vec.im[k] # 0
          /\ outcome.value.is_real[i]
          /\ outcome.value.eigenvalues[i].form = "scalar"

\* C5: a real eigenvector has Euclidean norm 1 when the norm of the real
\* parts of the solver's eigenvector exceeds 1e-10 (they are not all zero),
\* and is those real parts unchanged when it does not.
C5_RealVectorsUnit ==
    Decomposed =>
        \A i \in 1..OpDim :
            outcome.value.is_real[i] =>
                LET x == Solver[i].vec.re
                    raw2 == Sigma(x, x, 1)
                    vec == outcome.value.eigenvectors[i]
                IN  /\ vec.num = x
                    /\ raw2 > 0 => Sigma(vec.num, vec.num, 1) = vec.den2
                    /\ raw2 = 0 => vec.den2 = Solver[i].vec.den2

C5_Witness ==
    /\ Decomposed
    /\ \E i \in 1..OpDim :
          /\ outcome.value.is_real[i]
          /\ Solver[i].vec.den2 = 2
          /\ Sigma(Solver[i].vec.re, Solver[i].vec.re, 1) = 1
          /\ outcome.value.eigenvectors[i].num = Solver[i].vec.re
          /\ outcome.value.eigenvectors[i].den2 = 1

Aligned(p, q) == outcome = Return([present |-> TRUE, num |-> p, den |-> q])

NotAnEigenvector == outcome = Return(None)

\* the vector's norm is below the tolerance, for the default tolerance
\* (below which only the zero vector lies) and for the tolerances n/d of
\* small denominator
NormBelowTolerance ==
    \/ tolerance = DefaultTol /\ ZeroVector
    \/ /\ tolerance.d <= 4
       /\ Sigma(vector, vector, 1) * tolerance.d * tolerance.d < tolerance.n * tolerance.n

\* C6 as stated, at the default tolerance: on an identity matrix of any
\* size every nonzero vector of its dimension is reported aligned with
\* eigenvalue 1.
C6_Original ==
    (/\ Done("check")
     /\ tolerance = DefaultTol
     /\ matrix = Identity(Rows)
     /\ Len(vector) = Rows
     /\ ~ZeroVector) => Aligned(1, 1)

\* C6 amended: on the 2x2 or 3x3 identity, with a positive tolerance, every
\* vector of its dimension whose norm is at least the tolerance is reported
\* aligned with eigenvalue 1; on an identity of another size, or with a norm
\* below the tolerance or a zero tolerance, the answer is not an eigenvector.
C6_IdentityAligned ==
    (Done("check") /\ matrix = Identity(Rows) /\ Len(vector) = Rows /\ ~ZeroVector) =>
        IF Rows \in {2, 3} /\ tolerance.n > 0 /\ ~NormBelowTolerance
        THEN Aligned(1, 1)
        ELSE NotAnEigenvector

C6_Witness ==
    /\ Done("check")
    /\ matrix = Identity(3)
    /\ vector = <<1, -1, 1>>
    /\ tolerance = DefaultTol
    /\ Aligned(1, 1)

\* C7: a vector whose norm is below the tolerance, the zero vector in
\* particular, is answered not an eigenvector, without an error, whatever
\* the matrix.
C7_SmallVectorNotEigenvector ==
    (Done("check") /\ (NormBelowTolerance \/ ZeroVector)) => NotAnEigenvector

C7_Witness ==
    /\ Done("check")
    /\ matrix = Identity(2)
    /\ vector = <<1, 1>>
    /\ tolerance = [n |-> 2, d |-> 1]
    /\ NotAnEigenvector

ShapeViolation == IsRect(matrix) /\ (Rows # Cols \/ Len(vector) # Cols)

\* C8 as stated, at the default tolerance and for a nonzero vector: a
\* matrix that is not square, or a vector of another dimension, makes
\* checkAlignment raise.
C8_Original ==
    (/\ Done("check")
     /\ tolerance = DefaultTol
     /\ ~ZeroVector
     /\ ShapeViolation) => outcome.kind = "raise"

\* C8 amended: a matrix that is not square, or a vector of another
\* dimension, raises nothing: the answer is not an eigenvector, never an
\* eigenvalue.
C8_ShapeViolationNotEigenvector == (Done("check") /\ ShapeViolation) => NotAnEigenvector

C8_Witness ==
    /\ Done("check")
    /\ matrix = << <<1, 0>>, <<0, 1>>, <<0, 0>> >>
    /\ vector = <<1, 0>>
    /\ internal.kind = "raise"
    /\ NotAnEigenvector

\* C9: checkAlignment never raises: when a step inside it raises, it
\* answers not an eigenvector; the decompositions and transform raise
\* whatever is raised inside them.
C9_ErrorPolicy ==
    pc = "done" =>
        /\ op = "check" =>
              /\ outcome.kind = "return"
              /\ internal.kind = "raise" => NotAnEigenvector
        /\ (op \in {"2d", "3d", "transform"} /\ internal.kind = "raise") => outcome = internal
        /\ outcome.kind = "raise" => op \in {"2d", "3d", "transform"} /\ internal = outcome

C9_Witness ==
    /\ Done("check")
    /\ internal.kind = "raise"
    /\ internal.msg = "incompatible dimensions for cross product"
    /\ NotAnEigenvector

\* the cross product of the vector and its transform by the matrix, both
\* undivided: a scalar in two dimensions
C10Cross ==
    LET t == [i \in 1..Rows |-> Sigma(matrix[i], vector, 1)]
    IN  IF Rows = 2
        THEN << vector[1] * t[2] - vector[2] * t[1] >>
        ELSE << vector[2] * t[3] - vector[3] * t[2],
                vector[3] * t[1] - vector[1] * t[3],
                vector[1] * t[2] - vector[2] * t[1] >>

\* the cross product of the unit vector and its transform is C10Cross
\* divided by the squared norm vv of the vector; its exact magnitude is
\* strictly below the tolerance (the default, or one of small denominator)
C10CrossBelow ==
    LET vv == Sigma(vector, vector, 1)
        cc == Sigma(C10Cross, C10Cross, 1)
    IN  /\ vv > 0
        /\ \/ tolerance = DefaultTol /\ cc = 0
           \/ /\ tolerance.d <= 4
              /\ cc * tolerance.d * tolerance.d < tolerance.n * tolerance.n * vv * vv

\* the exact magnitude is the tolerance itself, and not zero
C10CrossAtTolerance ==
    LET vv == Sigma(vector, vector, 1)
        cc == Sigma(C10Cross, C10Cross, 1)
    IN  /\ cc > 0
        /\ tolerance.d <= 4
        /\ cc * tolerance.d * tolerance.d = tolerance.n * tolerance.n * vv * vv

\* C10 as stated, of the exact magnitude: for a square matrix of dimension
\* 2 or 3 and a vector of that dimension with norm at least the tolerance,
\* an eigenvalue is returned exactly when the cross product of the unit
\* vector and its transform is strictly below the tolerance in magnitude.
C10_Original ==
    (Done("check") /\ Square /\ Rows \in {2, 3} /\ Len(vector) = Rows /\ ~NormBelowTolerance) =>
        /\ outcome.kind = "return"
        /\ outcome.value.present = C10CrossBelow

\* C10 amended: for a square matrix of dimension 2 or 3 and a vector of that
\* dimension with norm at least the tolerance, an eigenvalue is returned
\* exactly when the magnitude of the cross product of the unit vector and
\* its transform, as computed in floating point, is strictly below the
\* tolerance: when the exact magnitude is below it, or is the tolerance
\* itself and was rounded down; the eigenvalue is the dot product of the
\* transform with the unit vector.
C10_AlignmentIffComputedCrossBelow ==
    (Done("check") /\ Square /\ Rows \in {2, 3} /\ Len(vector) = Rows /\ ~NormBelowTolerance) =>
        LET vv == Sigma(vector, vector, 1)
            tv == Sigma([i \in 1..Rows |-> Sigma(matrix[i], vector, 1)], vector, 1)
        IN  /\ outcome.kind = "return"
            /\ outcome.value.present = (C10CrossBelow \/ (C10CrossAtTolerance /\ rounded = "down"))
            /\ outcome.value.present =>
                  /\ outcome.value.den > 0
                  /\ outcome.value.num * vv = tv * outcome.value.den

C10_Witness ==
    /\ Done("check")
    /\ matrix = << <<0, -1>>, <<1, 0>> >>
    /\ vector = <<1, 1>>
    /\ tolerance = [n |-> 1, d |-> 1]
    /\ C10CrossAtTolerance
    /\ rounded = "down"
    /\ Aligned(0, 1)

====
